---- MODULE Spec2Model ----
(***************************************************************************)
(* Model of Cipher/gencursor.py: the X11 cursor theme generator.           *)
(*                                                                         *)
(* The cursors directory is a function from cursor names to directory      *)
(* entries of <name>.cursor (absent, regular config file, symbolic link),  *)
(* together with the set of scaled PNG files and of compiled cursors.      *)
(* Each function of the script is an operator on that state, and the       *)
(* specifications below run them in the orders the script runs them.       *)
(***************************************************************************)
EXTENDS Integers, Sequences, FiniteSets, TLC

(***************************************************************************)
(* Bounds of the model                                                     *)
(***************************************************************************)
\* at most this many PNG files are present in the image folder
MaxImages == 2
\* the same, where the synthesizer is run twice
MaxRerunImages == 1
\* at most this many entries are present in a starting cursors directory
MaxPresent == 2

(***************************************************************************)
(* Static tables of the script (Python dicts keep insertion order, so they *)
(* are sequences of <<key, value>> pairs)                                  *)
(***************************************************************************)
standard_sizes == << 16, 24, 32, 48, 64, 96, 128 >>

extended_sizes == << 16, 20, 24, 28, 32, 40, 48, 56, 64, 72, 80, 96, 112, 128 >>

image_to_cursor_map == <<
    <<"pointer.png", "left_ptr">>, <<"alternate.png", "right_ptr">>,
    <<"help.png", "question_arrow">>, <<"working.png", "progress">>,
    <<"busy.png", "wait">>, <<"link.png", "hand2">>,
    <<"handwriting.png", "pencil">>, <<"person.png", "hand1">>,
    <<"cross.png", "crosshair">>, <<"loc.png", "cross">>,
    <<"horz.png", "sb_h_double_arrow">>, <<"vert.png", "sb_v_double_arrow">>,
    <<"dgn1.png", "top_left_corner">>, <<"dgn2.png", "top_right_corner">>,
    <<"move.png", "fleur">>, <<"unavailable.png", "forbidden">> >>

essential_cursors == <<
    <<"default", "left_ptr">>, <<"arrow", "left_ptr">>,
    <<"text", "xterm">>, <<"ibeam", "xterm">>,
    <<"watch", "wait">>, <<"half-busy", "progress">>,
    <<"col-resize", "sb_h_double_arrow">>, <<"row-resize", "sb_v_double_arrow">>,
    <<"size_ver", "sb_v_double_arrow">>, <<"size_hor", "sb_h_double_arrow">>,
    <<"size_bdiag", "top_right_corner">>, <<"size_fdiag", "top_left_corner">>,
    <<"size_all", "fleur">>, <<"n_resize", "top_side">>,
    <<"s_resize", "bottom_side">>, <<"e_resize", "right_side">>,
    <<"w_resize", "left_side">>, <<"ne-resize", "top_right_corner">>,
    <<"nw-resize", "top_left_corner">>, <<"se-resize", "bottom_right_corner">>,
    <<"sw-resize", "bottom_left_corner">>, <<"hand", "hand2">>,
    <<"pointing_hand", "hand2">>, <<"openhand", "hand1">>,
    <<"closedhand", "hand1">>, <<"grab", "hand1">>,
    <<"grabbing", "hand1">>, <<"dnd-move", "fleur">>,
    <<"dnd-none", "forbidden">>, <<"dnd_no_drop", "forbidden">>,
    <<"no_drop", "forbidden">>, <<"not_allowed", "forbidden">>,
    <<"whats_this", "question_arrow">>, <<"crossed_circle", "forbidden">> >>

alias_groups == <<
    << "left_ptr", "default", "arrow", "top_left_arrow" >>,
    << "xterm", "text", "ibeam" >>,
    << "hand2", "hand", "pointer", "pointing_hand" >>,
    << "hand1", "openhand", "grab" >>,
    << "wait", "watch" >>,
    << "progress", "half-busy" >>,
    << "sb_h_double_arrow", "size_hor", "h-double-arrow", "ew-resize", "col-resize" >>,
    << "sb_v_double_arrow", "size_ver", "v_double_arrow", "ns-resize", "row-resize" >>,
    << "top_left_corner", "size_fdiag", "nw-resize", "nwse-resize" >>,
    << "top_right_corner", "size_bdiag", "ne-resize", "nesw-resize" >>,
    << "bottom_left_corner", "sw-resize" >>,
    << "bottom_right_corner", "se-resize" >>,
    << "fleur", "size_all", "move", "all-scroll" >>,
    << "forbidden", "not_allowed", "no_drop", "dnd-none", "crossed_circle" >> >>

\* every <name>.cursor the script can create, in the order sorted() gives them
SortedNames == <<
    "all-scroll", "arrow", "bottom_left_corner", "bottom_right_corner",
    "closedhand", "col-resize", "cross", "crossed_circle",
    "crosshair", "default", "dnd-move", "dnd-none",
    "dnd_no_drop", "e_resize", "ew-resize", "fleur",
    "forbidden", "grab", "grabbing", "h-double-arrow",
    "half-busy", "hand", "hand1", "hand2",
    "ibeam", "left_ptr", "move", "n_resize",
    "ne-resize", "nesw-resize", "no_drop", "not_allowed",
    "ns-resize", "nw-resize", "nwse-resize", "openhand",
    "pencil", "pointer", "pointing_hand", "progress",
    "question_arrow", "right_ptr", "row-resize", "s_resize",
    "sb_h_double_arrow", "sb_v_double_arrow", "se-resize", "size_all",
    "size_bdiag", "size_fdiag", "size_hor", "size_ver",
    "sw-resize", "text", "top_left_arrow", "top_left_corner",
    "top_right_corner", "v_double_arrow", "w_resize", "wait",
    "watch", "whats_this", "xterm" >>

(***************************************************************************)
(* Helpers                                                                 *)
(***************************************************************************)
Range(s) == { s[i] : i \in DOMAIN s }

Max(a, b) == IF a >= b THEN a ELSE b

Min(a, b) == IF a <= b THEN a ELSE b

\* the subsets of S with at most k elements
RECURSIVE SubsetsUpTo(_, _)
SubsetsUpTo(S, k) ==
    IF k = 0 THEN { {} }
    ELSE LET P == SubsetsUpTo(S, k - 1)
         IN  P \cup { p \cup {x} : p \in P, x \in S }

\* the element of a one-element set; { e(v) : v \in {x} } evaluates x once
TheOnly(S) == CHOOSE x \in S : TRUE

\* "key in d" for a dict d
HasKey(d, k) == \E i \in DOMAIN d : d[i][1] = k

\* d[key] for a dict d
Lookup(d, k) == d[CHOOSE i \in DOMAIN d : d[i][1] = k][2]

Names == Range(SortedNames)

\* the PNG files the image folder may hold: the mapped ones and a foreign one
Images == { image_to_cursor_map[i][1] : i \in DOMAIN image_to_cursor_map }
              \cup { "custom.png" }

\* a file name: the original image (size 0) or <stem>_<size>x<size>.png
FileName(stem, size) == [stem |-> stem, size |-> size]

(***************************************************************************)
(* calculate_hotspot                                                       *)
(***************************************************************************)
ArrowNames == {"left_ptr", "arrow", "default", "right_ptr", "top_left_arrow"}

HandNames == {"hand2", "hand", "pointer", "pointing_hand"}

TopLeftNames == {"top_left_corner", "nw-resize", "size_fdiag"}

TopRightNames == {"top_right_corner", "ne-resize", "size_bdiag"}

BottomLeftNames == {"bottom_left_corner", "sw-resize"}

BottomRightNames == {"bottom_right_corner", "se-resize"}

\* a sign slip in the offset from the right or bottom edge
far_edge_slip(size) == size + Max(1, size \div 8)

\* size - max(1, size // 8): the offset measured from the right or bottom edge
far_edge(size) == size - Max(1, size \div 8)

calculate_hotspot(cursor_name, size) ==
    CASE cursor_name \in ArrowNames ->
            << Max(1, size \div 16), Max(1, size \div 16) >>
      [] cursor_name \in HandNames ->
            << Max(1, (size * 6) \div 32), Max(1, size \div 16) >>
      [] cursor_name \in {"xterm", "text", "ibeam"} ->
            << size \div 2, size \div 2 >>
      [] cursor_name \in {"crosshair", "cross", "tcross", "diamond_cross"} ->
            << size \div 2, size \div 2 >>
      [] cursor_name \in {"fleur", "size_all", "move"} ->
            << size \div 2, size \div 2 >>
      [] cursor_name \in {"sb_h_double_arrow", "size_hor", "h-double-arrow", "col-resize"} ->
            << size \div 2, size \div 2 >>
      [] cursor_name \in {"sb_v_double_arrow", "size_ver", "v_double_arrow", "row-resize"} ->
            << size \div 2, size \div 2 >>
      [] cursor_name \in TopLeftNames ->
            << Max(1, size \div 8), Max(1, size \div 8) >>
      [] cursor_name \in TopRightNames ->
            << far_edge(size), Max(1, size \div 8) >>
      [] cursor_name \in BottomLeftNames ->
            << Max(1, size \div 8), far_edge(size) >>
      [] cursor_name \in BottomRightNames ->
            << far_edge(size), far_edge(size) >>
      [] cursor_name \in {"watch", "wait", "progress"} ->
            << size \div 2, size \div 2 >>
      [] cursor_name \in {"forbidden", "not_allowed", "crossed_circle"} ->
            << size \div 2, size \div 2 >>
      [] OTHER ->
            << size \div 2, size \div 2 >>

(***************************************************************************)
(* The cursors directory                                                   *)
(***************************************************************************)
NoText == [header |-> "", lines |-> << >>]

Absent == [kind |-> "none", target |-> "", text |-> NoText]

RegularFile(text) == [kind |-> "file", target |-> "", text |-> text]

SymLink(target) == [kind |-> "link", target |-> target, text |-> NoText]

EmptyDir == [n \in Names |-> Absent]

\* the name of the regular file a path leads to, "" when there is none
RECURSIVE ResolveFuel(_, _, _)
ResolveFuel(files, name, fuel) ==
    CASE files[name].kind = "file" -> name
      [] files[name].kind = "link" /\ fuel > 0 ->
            ResolveFuel(files, files[name].target, fuel - 1)
      [] OTHER -> ""

Resolve(files, name) == ResolveFuel(files, name, Cardinality(Names))

\* Path.exists(): follows symbolic links
Exists(files, name) == Resolve(files, name) # ""

\* Path.is_symlink()
IsSymlink(files, name) == files[name].kind = "link"

\* the last link of the chain a write through `name` lands on
RECURSIVE WriteTarget(_, _, _)
WriteTarget(files, name, fuel) ==
    IF files[name].kind = "link" /\ fuel > 0
    THEN WriteTarget(files, files[name].target, fuel - 1)
    ELSE name

\* open(path, 'w') and write: follows symbolic links, creates or truncates
WriteFile(files, name, text) ==
    [files EXCEPT ![WriteTarget(files, name, Cardinality(Names))] = RegularFile(text)]

\* what reading <name>.cursor yields
ReadFile(files, name) == files[Resolve(files, name)].text

(***************************************************************************)
(* create_scaled_images and create_optimized_multisize_config              *)
(*                                                                         *)
(* failAt is the number of sizes saved before Image.open, resize or save   *)
(* raises; Len(sizes) when nothing raises.  The scaled PNGs of a cursor    *)
(* are a tuple with one slot per size: the source image the PNG of that    *)
(* size was resampled from, "" while <cursor>_<size>x<size>.png is absent. *)
(***************************************************************************)
RECURSIVE Blank(_)
Blank(n) == IF n = 0 THEN << >> ELSE << "" >> \o Blank(n - 1)

NoPngs == [n \in Names |-> Blank(Len(standard_sizes))]

\* lines 59-71: resized_img.save for the first `done` sizes, slots i.. of the cursor
RECURSIVE save_loop(_, _, _, _)
save_loop(slots, original_image, done, i) ==
    IF i > Len(slots) THEN << >>
    ELSE << IF i <= done THEN original_image ELSE slots[i] >>
             \o save_loop(slots, original_image, done, i + 1)

\* the dict that maps every size to one file name, as <<size, name>> pairs
RECURSIVE size_dict(_, _, _, _)
size_dict(sizes, stem, scaled, i) ==
    IF i > Len(sizes) THEN << >>
    ELSE << << sizes[i], FileName(stem, IF scaled THEN sizes[i] ELSE 0) >> >>
             \o size_dict(sizes, stem, scaled, i + 1)

\* pngs is output_dir; the result carries it along with the returned dict
create_scaled_images(pngs, original_image, cursor_name, sizes, failAt) ==
    LET done == Min(failAt, Len(sizes))
    IN  [ pngs |-> [pngs EXCEPT ![cursor_name] = save_loop(@, original_image, done, 1)],
          scaled_images |->
              IF failAt >= Len(sizes)
              THEN size_dict(sizes, cursor_name, TRUE, 1)
              ELSE size_dict(sizes, original_image, FALSE, 1),
          warned |-> failAt < Len(sizes) ]

\* lines 92-98: one line per size, from size i on
RECURSIVE config_lines(_, _, _, _, _)
config_lines(cursor_name, original_image, sizes, scaled_images, i) ==
    IF i > Len(sizes) THEN << >>
    ELSE << [ size  |-> sizes[i],
              x     |-> calculate_hotspot(cursor_name, sizes[i])[1],
              y     |-> calculate_hotspot(cursor_name, sizes[i])[2],
              image |-> IF HasKey(scaled_images, sizes[i])
                        THEN Lookup(scaled_images, sizes[i])
                        ELSE FileName(original_image, 0),
              delay |-> 100 ] >>
             \o config_lines(cursor_name, original_image, sizes, scaled_images, i + 1)

\* fs is [files, pngs]: the config entries and the scaled PNGs of the directory
create_optimized_multisize_config(fs, cursor_name, original_image, sizes, failAt) ==
    TheOnly({ [ files |-> WriteFile(fs.files, cursor_name,
                    [ header |-> cursor_name,
                      lines  |-> config_lines(cursor_name, original_image, sizes,
                                              r.scaled_images, 1) ]),
                pngs  |-> r.pngs ]
              : r \in { create_scaled_images(fs.pngs, original_image, cursor_name,
                                             sizes, failAt) } })

(***************************************************************************)
(* The generation pipeline of create_fullsize_cursor_theme                 *)
(*                                                                         *)
(* available_images is [names, first]: the PNG names of the image folder   *)
(* and the one the directory listing gives first (no other position of the *)
(* listing is read).  A fault [image, at] makes every scaling of that      *)
(* image raise after `at` sizes; NoFault names no image.                   *)
(***************************************************************************)
NoFault == [image |-> "", at |-> 0]

Faults(names) ==
    {NoFault} \cup [image : names, at : 0..(Len(standard_sizes) - 1)]

FailAt(fault, image) ==
    IF fault.image = image THEN fault.at ELSE Len(standard_sizes)

AvailableImages ==
    { [names |-> S, first |-> f] :
        S \in SubsetsUpTo(Images, MaxImages) \ { {} }, f \in Images }

Listings ==
    { a \in AvailableImages : a.first \in a.names }
        \cup { [names |-> {}, first |-> ""] }

RerunListings == { a \in Listings : Cardinality(a.names) <= MaxRerunImages }

\* lines 213-216, entry i of image_to_cursor_map: a config for the mapped
\* image if it is available
primary_step(fs, available_images, fault, i) ==
    LET image_name  == image_to_cursor_map[i][1]
        cursor_name == image_to_cursor_map[i][2]
    IN  IF image_name \in available_images.names
        THEN create_optimized_multisize_config(fs, cursor_name, image_name,
                 standard_sizes, FailAt(fault, image_name))
        ELSE fs

\* lines 213-216, from entry i on
RECURSIVE primary_pass(_, _, _, _)
primary_pass(fs, available_images, fault, i) ==
    IF i > Len(image_to_cursor_map) THEN fs
    ELSE TheOnly({ primary_pass(primary_step(v, available_images, fault, i),
                                available_images, fault, i + 1) : v \in {fs} })

\* lines 275-279: the image an essential cursor is built from, "" for None
essential_image(cursor_map, available_images, fallback) ==
    IF HasKey(cursor_map, fallback) /\ fallback \in available_images.names
    THEN Lookup(cursor_map, fallback)
    ELSE IF available_images.names # {}
         THEN available_images.first
         ELSE ""

\* the file-existence guard of line 273 left out
essential_step_unguarded(fs, cursor_map, available_images, sizes, fault, i) ==
    LET cursor_name == essential_cursors[i][1]
        fallback    == essential_cursors[i][2]
        image_file  == essential_image(cursor_map, available_images, fallback)
    IN  IF /\ ~HasKey(cursor_map, cursor_name)
           /\ image_file # ""
        THEN create_optimized_multisize_config(fs, cursor_name, image_file,
                 sizes, FailAt(fault, image_file))
        ELSE fs

\* lines 271-282, entry i of essential_cursors
essential_step(fs, cursor_map, available_images, sizes, fault, i) ==
    LET cursor_name == essential_cursors[i][1]
        fallback    == essential_cursors[i][2]
        image_file  == essential_image(cursor_map, available_images, fallback)
    IN  IF /\ ~HasKey(cursor_map, cursor_name)
           /\ ~Exists(fs.files, cursor_name)
           /\ image_file # ""
        THEN create_optimized_multisize_config(fs, cursor_name, image_file,
                 sizes, FailAt(fault, image_file))
        ELSE fs

\* lines 270-282, from entry i on
RECURSIVE essential_loop(_, _, _, _, _, _)
essential_loop(fs, cursor_map, available_images, sizes, fault, i) ==
    IF i > Len(essential_cursors) THEN fs
    ELSE TheOnly({ essential_loop(
                       essential_step(v, cursor_map, available_images, sizes, fault, i),
                       cursor_map, available_images, sizes, fault, i + 1) : v \in {fs} })

create_fullsize_essential_cursors(fs, cursor_map, available_images, sizes, fault) ==
    essential_loop(fs, cursor_map, available_images, sizes, fault, 1)

\* lines 305-310: the first member of the group whose config exists, "" for None
source_cursor(files, group) ==
    IF \E j \in DOMAIN group : Exists(files, group[j])
    THEN group[CHOOSE j \in DOMAIN group :
                  /\ Exists(files, group[j])
                  /\ \A k \in 1..(j - 1) : ~Exists(files, group[k])]
    ELSE ""

\* lines 317-320: symlink_to, and shutil.copy2 when it raises OSError (links
\* unsupported, or the path is taken by a link that leads nowhere)
link_or_copy(files, source, alias, linkOK) ==
    IF linkOK /\ files[alias].kind = "none"
    THEN [files EXCEPT ![alias] = SymLink(source)]
    ELSE WriteFile(files, alias, ReadFile(files, source))

\* the file-existence guard of line 316 left out
alias_step_overwrite(files, group, source, linkOK, j) ==
    IF group[j] # source
    THEN link_or_copy(files, source, group[j], linkOK)
    ELSE files

\* lines 314-320, member j of the group
alias_step(files, group, source, linkOK, j) ==
    IF group[j] # source /\ ~Exists(files, group[j])
    THEN link_or_copy(files, source, group[j], linkOK)
    ELSE files

\* lines 313-320, from member j of the group on
RECURSIVE alias_loop(_, _, _, _, _)
alias_loop(files, group, source, linkOK, j) ==
    IF j > Len(group) THEN files
    ELSE TheOnly({ alias_loop(alias_step(v, group, source, linkOK, j),
                              group, source, linkOK, j + 1) : v \in {files} })

\* lines 305-320, group g
group_step(files, linkOK, g) ==
    LET source == source_cursor(files, alias_groups[g])
    IN  IF source # ""
        THEN alias_loop(files, alias_groups[g], source, linkOK, 1)
        ELSE files

\* lines 304-320, from group g on
RECURSIVE group_loop(_, _, _)
group_loop(files, linkOK, g) ==
    IF g > Len(alias_groups) THEN files
    ELSE TheOnly({ group_loop(group_step(v, linkOK, g), linkOK, g + 1) : v \in {files} })

create_fullsize_aliases(files, linkOK) == group_loop(files, linkOK, 1)

(***************************************************************************)
(* State                                                                   *)
(***************************************************************************)
VARIABLES
    pc,            \* where the script is
    available,     \* available_images: the listing of the image folder
    fault,         \* the scaling fault of the environment during a run
    linking,       \* whether symlink_to works in the cursors directory
    xcursorgen,    \* whether the compiler binary is installed
    files,         \* cursors directory: name |-> entry of <name>.cursor
    pngs,          \* cursors directory: name |-> its scaled PNG files
    cwd,           \* process working directory, relative to the one at start
    dirs,          \* the directories that exist, as absolute paths
    themeFiles,    \* the files written outside cursors/, as absolute paths
    response,      \* the operator's answer, lower-cased
    config_files,  \* the driver's list of config files
    idx,           \* index into config_files of the next file
    successful,    \* the driver's success counter
    failed,        \* the driver's failure counter
    attempted,     \* the config names handed to the compiler, in order
    last,          \* the outcome of the latest invocation
    original_cwd,  \* the driver's saved working directory
    entry_cwd,     \* the working directory when the driver was entered
    raised,        \* an exception left the entry point
    arg,           \* arguments of the function under test
    ret            \* its result

vars == << pc, available, fault, linking, xcursorgen, files, pngs, cwd,
           dirs, themeFiles, response, config_files, idx, successful, failed,
           attempted, last, original_cwd, entry_cwd, raised, arg, ret >>

envVars == << available, xcursorgen >>

driverVars == << response, config_files, idx, successful, failed, attempted,
                 last, original_cwd, entry_cwd >>

pathVars == << cwd, dirs, themeFiles, raised >>

callVars == << arg, ret >>

ThemeName == "fullsize_pro_cursors"

\* Path(theme_name) / "cursors", a relative path
CursorsRel == << ThemeName, "cursors" >>

NoLast == [name |-> "", outcome |-> "", artifact |-> FALSE]

NoCall == [cursor |-> "", image |-> "", size |-> 0, failAt |-> 0]

NoRet == [hotspot |-> << 0, 0 >>, scaled_images |-> << >>]

\* the state before the script has done anything, in an empty theme directory
Fresh ==
    /\ linking = TRUE
    /\ cwd = << >>
    /\ dirs = { << >> }
    /\ themeFiles = {}
    /\ response = ""
    /\ config_files = << >>
    /\ idx = 0
    /\ successful = 0
    /\ failed = 0
    /\ attempted = << >>
    /\ last = NoLast
    /\ original_cwd = << >>
    /\ entry_cwd = << >>
    /\ raised = FALSE
    /\ ret = NoRet

(***************************************************************************)
(* SpecGen: the steps of create_fullsize_cursor_theme, one per call        *)
(***************************************************************************)
InitGen ==
    /\ Fresh
    /\ files = EmptyDir
    /\ pngs = NoPngs
    /\ arg = NoCall
    /\ pc = "theme"
    /\ available \in Listings
    /\ fault \in Faults(available.names)
    /\ xcursorgen = TRUE

\* lines 201-216: mkdir, glob, then the primary config pass
GenPrimary ==
    /\ pc = "theme"
    /\ LET fs == primary_pass([files |-> files, pngs |-> pngs], available, fault, 1)
       IN  /\ files' = fs.files
           /\ pngs' = fs.pngs
    /\ dirs' = dirs \cup { cwd \o << ThemeName >>, cwd \o CursorsRel }
    /\ pc' = "essential"
    /\ UNCHANGED << envVars, fault, linking, driverVars, callVars, cwd,
                    themeFiles, raised >>

\* line 219
GenEssential ==
    /\ pc = "essential"
    /\ LET fs == create_fullsize_essential_cursors([files |-> files, pngs |-> pngs],
                     image_to_cursor_map, available, standard_sizes, fault)
       IN  /\ files' = fs.files
           /\ pngs' = fs.pngs
    /\ pc' = "aliases"
    /\ UNCHANGED << envVars, fault, linking, driverVars, callVars, pathVars >>

\* line 222, on a file system that supports symbolic links or on one that
\* does not
GenAliases ==
    /\ pc = "aliases"
    /\ \E linkOK \in BOOLEAN :
         /\ linking' = linkOK
         /\ files' = create_fullsize_aliases(files, linkOK)
    /\ pc' = "index"
    /\ UNCHANGED << envVars, fault, pngs, driverVars, callVars, pathVars >>

\* line 225 and create_fullsize_theme_index
GenIndex ==
    /\ pc = "index"
    /\ themeFiles' = themeFiles \cup { cwd \o << ThemeName, "index.theme" >> }
    /\ pc' = "generated"
    /\ UNCHANGED << envVars, fault, linking, files, pngs, driverVars, callVars,
                    cwd, dirs, raised >>

NextGen == GenPrimary \/ GenEssential \/ GenAliases \/ GenIndex

SpecGen == InitGen /\ [][NextGen]_vars

(***************************************************************************)
(* SpecSynth: the Essential Cursor Synthesizer run a second time on the    *)
(* directory its first run left, under whatever fault the second run meets *)
(***************************************************************************)
InitSynth ==
    /\ InitGen
    /\ available \in RerunListings

SynthAgain ==
    /\ pc = "aliases"
    /\ \E f \in Faults(available.names) :
         LET fs == create_fullsize_essential_cursors(
                       [files |-> files, pngs |-> pngs],
                       image_to_cursor_map, available, standard_sizes, f)
         IN  /\ files' = fs.files
             /\ pngs' = fs.pngs
    /\ pc' = "again"
    /\ UNCHANGED << envVars, fault, linking, driverVars, callVars, pathVars >>

NextSynth == GenPrimary \/ GenEssential \/ SynthAgain

SpecSynth == InitSynth /\ [][NextSynth]_vars

(***************************************************************************)
(* SpecAlias: the Alias Linker run twice on a starting cursors directory.  *)
(* A starting directory holds regular config files and links to regular    *)
(* config files of the same group, which is what the script itself leaves. *)
(***************************************************************************)
GroupNames == UNION { Range(alias_groups[g]) : g \in DOMAIN alias_groups }

SameGroup(a, b) ==
    \E g \in DOMAIN alias_groups :
        a \in Range(alias_groups[g]) /\ b \in Range(alias_groups[g])

\* the config the Cursor Config Writer leaves for a cursor
StartText(n) ==
    [ header |-> n,
      lines  |-> config_lines(n, "custom.png", standard_sizes,
                              size_dict(standard_sizes, n, TRUE, 1), 1) ]

\* for each present name: "file", or the present regular file it links to
StartShapes(S) ==
    { f \in [S -> {"file"} \cup S] :
        \A n \in S : f[n] # "file" =>
            /\ f[n] # n
            /\ SameGroup(n, f[n])
            /\ f[f[n]] = "file" }

StartDir(S, f) ==
    [ n \in Names |->
        IF n \notin S THEN Absent
        ELSE IF f[n] = "file" THEN RegularFile(StartText(n))
        ELSE SymLink(f[n]) ]

InitAlias ==
    /\ Fresh
    /\ pc = "linker"
    /\ available = [names |-> {}, first |-> ""]
    /\ fault = NoFault
    /\ xcursorgen = TRUE
    /\ \E S \in SubsetsUpTo(GroupNames, MaxPresent) :
         \E f \in StartShapes(S) : files = StartDir(S, f)
    /\ pngs = NoPngs
    /\ arg = NoCall

\* create_fullsize_aliases on the starting directory
AliasRun ==
    /\ pc = "linker"
    /\ \E linkOK \in BOOLEAN :
         /\ linking' = linkOK
         /\ files' = create_fullsize_aliases(files, linkOK)
    /\ pc' = "linked"
    /\ UNCHANGED << envVars, fault, pngs, driverVars, callVars, pathVars >>

\* create_fullsize_aliases on the directory its first run left
AliasRerun ==
    /\ pc = "linked"
    /\ \E linkOK \in BOOLEAN :
         /\ linking' = linkOK
         /\ files' = create_fullsize_aliases(files, linkOK)
    /\ pc' = "relinked"
    /\ UNCHANGED << envVars, fault, pngs, driverVars, callVars, pathVars >>

NextAlias == AliasRun \/ AliasRerun

SpecAlias == InitAlias /\ [][NextAlias]_vars

(***************************************************************************)
(* SpecHot: calculate_hotspot on every cursor name and requested size      *)
(***************************************************************************)
HotspotNames == Names \cup {"tcross", "diamond_cross", "top_side", "unknown"}

RequestedSizes == Range(standard_sizes) \cup Range(extended_sizes)

InitHot ==
    /\ Fresh
    /\ pc = "hotspot"
    /\ available = [names |-> {}, first |-> ""]
    /\ fault = NoFault
    /\ xcursorgen = TRUE
    /\ files = EmptyDir
    /\ pngs = NoPngs
    /\ arg \in [cursor : HotspotNames, image : {""}, size : RequestedSizes, failAt : {0}]

HotspotCall ==
    /\ pc = "hotspot"
    /\ ret' = [ret EXCEPT !.hotspot = calculate_hotspot(arg.cursor, arg.size)]
    /\ pc' = "hotspot_done"
    /\ UNCHANGED << envVars, fault, linking, files, pngs, driverVars, pathVars, arg >>

NextHot == HotspotCall

SpecHot == InitHot /\ [][NextHot]_vars

(***************************************************************************)
(* SpecScale: one config written from an image whose scaling may raise     *)
(***************************************************************************)
WrittenNames ==
    { image_to_cursor_map[i][2] : i \in DOMAIN image_to_cursor_map }
        \cup { essential_cursors[i][1] : i \in DOMAIN essential_cursors }

InitScale ==
    /\ Fresh
    /\ pc = "scale"
    /\ available = [names |-> {}, first |-> ""]
    /\ fault = NoFault
    /\ xcursorgen = TRUE
    /\ files = EmptyDir
    /\ pngs = NoPngs
    /\ arg \in [cursor : WrittenNames, image : Images, size : {0},
                 failAt : 0..Len(standard_sizes)]

\* create_optimized_multisize_config, with the dict its scaler returned
ScaleCall ==
    /\ pc = "scale"
    /\ LET fs == create_optimized_multisize_config([files |-> files, pngs |-> pngs],
                     arg.cursor, arg.image, standard_sizes, arg.failAt)
           r  == create_scaled_images(pngs, arg.image, arg.cursor,
                                      standard_sizes, arg.failAt)
       IN  /\ files' = fs.files
           /\ pngs' = fs.pngs
           /\ ret' = [ret EXCEPT !.scaled_images = r.scaled_images]
    /\ pc' = "scale_done"
    /\ UNCHANGED << envVars, fault, linking, driverVars, pathVars, arg >>

NextScale == ScaleCall

SpecScale == InitScale /\ [][NextScale]_vars

(***************************************************************************)
(* SpecMain: the entry point, lines 491-512: the theme is created, the     *)
(* operator is asked, the Compiler Driver runs file by file if the answer  *)
(* is affirmative, and the HiDPI script is written.                        *)
(***************************************************************************)
\* the image folders of the runs: empty, one image, the two of the scenario
MainListings ==
    { [names |-> {}, first |-> ""],
      [names |-> {"pointer.png"}, first |-> "pointer.png"],
      [names |-> {"pointer.png", "link.png"}, first |-> "link.png"] }

Responses == {"y", "Y", "yes", "YES", "Yes", "n", "no", "", "maybe"}

\* str.lower() on the answers above
Lower(r) ==
    CASE r = "Y" -> "y"
      [] r \in {"YES", "Yes"} -> "yes"
      [] OTHER -> r

\* line 366: the *.cursor entries that are no symbolic links, sorted
non_symlink_configs(fl) ==
    LET Listed(n) == fl[n].kind # "none" /\ ~IsSymlink(fl, n)
    IN  SelectSeq(SortedNames, Listed)

\* what one invocation of the compiler can come to
Outcomes(present) ==
    IF present
    THEN [outcome : {"exit0", "exit1"}, artifact : BOOLEAN]
             \cup [outcome : {"timeout", "error"}, artifact : {FALSE}]
    ELSE { [outcome |-> "notfound", artifact |-> FALSE] }

\* success counted on the exit status alone
count_outcome_no_exists(succ, fail, o) ==
    CASE o.outcome = "notfound" -> << succ, fail >>
      [] o.outcome = "exit0" -> << succ + 1, fail >>
      [] OTHER -> << succ, fail + 1 >>

\* lines 387-395 and 403-410: the counters after one invocation
count_outcome(succ, fail, o) ==
    CASE o.outcome = "notfound" -> << succ, fail >>
      [] o.outcome = "exit0" /\ o.artifact -> << succ + 1, fail >>
      [] OTHER -> << succ, fail + 1 >>

\* the FileNotFoundError handler without its break
loop_after_continue(o) == "continue"

\* lines 397-402: a missing compiler ends the loop
loop_after(o) == IF o.outcome = "notfound" THEN "break" ELSE "continue"

\* lines 385, 406, 410: chdir(original_cwd), which lines 397-402 do not do
cwd_after(o, original, cursors) ==
    IF o.outcome = "notfound" THEN cursors ELSE original

InitMain ==
    /\ Fresh
    /\ pc = "main"
    /\ available \in MainListings
    /\ fault = NoFault
    /\ xcursorgen \in BOOLEAN
    /\ files = EmptyDir
    /\ pngs = NoPngs
    /\ arg = NoCall

\* lines 496-499: create_fullsize_cursor_theme as a whole
MainCreateTheme ==
    /\ pc = "main"
    /\ \E linkOK \in BOOLEAN :
         LET p == primary_pass([files |-> files, pngs |-> pngs], available, fault, 1)
             e == create_fullsize_essential_cursors(p, image_to_cursor_map,
                      available, standard_sizes, fault)
         IN  /\ linking' = linkOK
             /\ files' = create_fullsize_aliases(e.files, linkOK)
             /\ pngs' = e.pngs
    /\ dirs' = dirs \cup { cwd \o << ThemeName >>, cwd \o CursorsRel }
    /\ themeFiles' = themeFiles \cup { cwd \o << ThemeName, "index.theme" >> }
    /\ pc' = "prompt"
    /\ UNCHANGED << envVars, fault, driverVars, callVars, cwd, raised >>

\* lines 502-504
MainPrompt ==
    /\ pc = "prompt"
    /\ \E r \in Responses :
         /\ response' = Lower(r)
         /\ pc' = IF Lower(r) \in {"y", "yes"} THEN "driver" ELSE "hidpi"
    /\ UNCHANGED << envVars, fault, linking, files, pngs, config_files, idx,
                    successful, failed, attempted, last, original_cwd,
                    entry_cwd, callVars, pathVars >>

\* lines 353-366: generate_fullsize_cursors up to its loop
DriverEnter ==
    /\ pc = "driver"
    /\ entry_cwd' = cwd
    /\ IF (cwd \o CursorsRel) \in dirs
       THEN /\ config_files' = non_symlink_configs(files)
            /\ idx' = 1
            /\ successful' = 0
            /\ failed' = 0
            /\ pc' = "compile"
       ELSE /\ pc' = "hidpi"
            /\ UNCHANGED << config_files, idx, successful, failed >>
    /\ UNCHANGED << envVars, fault, linking, files, pngs, response, attempted,
                    last, original_cwd, callVars, pathVars >>

\* lines 368-410: one iteration of the loop
DriverStep ==
    /\ pc = "compile"
    /\ idx <= Len(config_files)
    /\ \E run \in Outcomes(xcursorgen) :
         LET cursors == cwd \o CursorsRel
             entered == cursors \in dirs
             o       == IF entered THEN run
                        ELSE [outcome |-> "notfound", artifact |-> FALSE]
             counts  == count_outcome(successful, failed, o)
         IN  /\ original_cwd' = cwd
             /\ cwd' = IF entered THEN cwd_after(o, cwd, cursors) ELSE cwd
             /\ attempted' = IF entered THEN Append(attempted, config_files[idx])
                             ELSE attempted
             /\ last' = [name |-> config_files[idx], outcome |-> o.outcome,
                         artifact |-> o.artifact]
             /\ successful' = counts[1]
             /\ failed' = counts[2]
             /\ IF loop_after(o) = "break"
                THEN pc' = "aborted" /\ idx' = idx
                ELSE pc' = "compile" /\ idx' = idx + 1
    /\ UNCHANGED << envVars, fault, linking, files, pngs, response, config_files,
                    entry_cwd, callVars, dirs, themeFiles, raised >>

\* lines 412-418: the summary, and the return to the entry point
DriverReturn ==
    /\ IF pc = "compile" THEN idx > Len(config_files) ELSE pc = "aborted"
    /\ pc' = "hidpi"
    /\ UNCHANGED << envVars, fault, linking, files, pngs, driverVars, callVars,
                    pathVars >>

\* line 507 and create_high_dpi_script: open() raises FileNotFoundError when
\* the relative theme directory is not found from the working directory
MainHiDPI ==
    /\ pc = "hidpi"
    /\ IF (cwd \o << ThemeName >>) \in dirs
       THEN /\ themeFiles' = themeFiles
                                \cup { cwd \o << ThemeName, "configure_hidpi.sh" >> }
            /\ pc' = "done"
            /\ UNCHANGED raised
       ELSE /\ raised' = TRUE
            /\ pc' = "crashed"
            /\ UNCHANGED themeFiles
    /\ UNCHANGED << envVars, fault, linking, files, pngs, driverVars, callVars,
                    cwd, dirs >>

NextMain ==
    MainCreateTheme \/ MainPrompt \/ DriverEnter \/ DriverStep \/ DriverReturn
        \/ MainHiDPI

SpecMain == InitMain /\ [][NextMain]_vars

(***************************************************************************)
(* Properties                                                              *)
(***************************************************************************)
\* the image of the primary map whose cursor is the fallback, "" if none
MappedImage(fallback) ==
    IF \E e \in DOMAIN image_to_cursor_map : image_to_cursor_map[e][2] = fallback
    THEN image_to_cursor_map[CHOOSE e \in DOMAIN image_to_cursor_map :
                                 image_to_cursor_map[e][2] = fallback][1]
    ELSE ""

\* the source images the config of cursor n draws its pixels from
BuiltFrom(fl, pg, n) ==
    { IF fl[n].text.lines[i].image.size = 0
      THEN fl[n].text.lines[i].image.stem
      ELSE pg[n][i] : i \in DOMAIN fl[n].text.lines }

ExpectedImage(fallback) ==
    IF MappedImage(fallback) \in available.names
    THEN MappedImage(fallback)
    ELSE available.first

\* C1: every essential cursor the synthesizer creates is built from the image
\* mapped to its fallback cursor when that image is available, from the first
\* available image only otherwise, and nothing is written without images.
C1_FallbackImagePreferred ==
    [][ (pc = "essential" /\ pc' = "aliases") =>
          /\ \A i \in DOMAIN essential_cursors :
               LET n == essential_cursors[i][1]
               IN  (~Exists(files, n) /\ Exists(files', n)) =>
                     BuiltFrom(files', pngs', n)
                         = { ExpectedImage(essential_cursors[i][2]) }
          /\ (available.names = {} => (files' = files /\ pngs' = pngs)) ]_vars

\* C2: after the primary pass, the synthesizer and the linker, every alias
\* group with a config file has one canonical regular file, and every other
\* member is a link to it or a copy of it.
C2_OneCanonicalPerGroup ==
    pc \in {"index", "generated"} =>
        \A g \in DOMAIN alias_groups :
            LET members == Range(alias_groups[g])
            IN  (\E m \in members : files[m].kind # "none") =>
                  \E c \in members :
                      /\ files[c].kind = "file"
                      /\ \A m \in members \ {c} :
                           \/ files[m] = SymLink(c)
                           \/ /\ files[m].kind = "file"
                              /\ files[m].text = files[c].text

\* the first member of the group, in group order, whose config exists
FirstExisting(fl, group) ==
    LET I == { j \in DOMAIN group : Exists(fl, group[j]) }
    IN  IF I = {} THEN ""
        ELSE group[CHOOSE j \in I : \A k \in I : j <= k]

LinkerContract(before, after, linkOK) ==
    /\ \A g \in DOMAIN alias_groups :
         LET c == FirstExisting(before, alias_groups[g])
         IN  \A m \in Range(alias_groups[g]) :
                IF c = "" \/ m = c \/ before[m].kind # "none"
                THEN after[m] = before[m]
                ELSE after[m] = IF linkOK THEN SymLink(c)
                                ELSE RegularFile(ReadFile(before, c))
    /\ \A n \in Names \ GroupNames : after[n] = before[n]

C7_NoPartialOutput ==
    (pc = "scale_done" /\ arg.failAt < Len(standard_sizes)) =>
        /\ ~raised
        /\ \A i \in DOMAIN ret.scaled_images :
             ret.scaled_images[i][2] = FileName(arg.image, 0)
        /\ \A i \in DOMAIN pngs[arg.cursor] : pngs[arg.cursor][i] = ""
        /\ \A i \in DOMAIN files[arg.cursor].text.lines :
             files[arg.cursor].text.lines[i].image = FileName(arg.image, 0)

OffsetNames ==
    ArrowNames \cup HandNames \cup TopLeftNames \cup TopRightNames
        \cup BottomLeftNames \cup BottomRightNames

\* C8: the hotspot of every cursor name at every requested size s lies in
\* [0, s) on both axes, and is at least 1 on both for the offset categories.
C8_HotspotInRange ==
    pc = "hotspot_done" =>
        LET x == ret.hotspot[1]
            y == ret.hotspot[2]
        IN  /\ 0 <= x /\ x < arg.size
            /\ 0 <= y /\ y < arg.size
            /\ arg.cursor \in OffsetNames => (x >= 1 /\ y >= 1)

C8_Witness ==
    /\ pc = "hotspot_done"
    /\ arg.cursor = "se-resize"
    /\ arg.size = 16
    /\ ret.hotspot = << 14, 14 >>

\* C9: a second run of the synthesizer on the directory its first run left
\* creates no file and changes none, configs and scaled PNGs alike.
C9_SynthIdempotent ==
    [][ (pc = "aliases" /\ pc' = "again") =>
            (files' = files /\ pngs' = pngs) ]_vars

C9_Witness ==
    /\ pc = "again"
    /\ available.first = "link.png"
    /\ fault.image = "link.png"
    /\ files["default"].kind = "file"
    /\ files["hand2"].kind = "file"

Affirmative == response \in {"y", "yes"}

\* C3: whatever the answer and the compile outcomes, no exception leaves the
\* entry point and <themeName>/configure_hidpi.sh is written at the end.
C3_ScriptAlwaysEmitted ==
    pc \in {"done", "crashed"} =>
        /\ ~raised
        /\ << ThemeName, "configure_hidpi.sh" >> \in themeFiles

\* C4: without the compiler binary the driver stops at its first invocation:
\* one file is attempted, nothing is counted, and no config file or scaled
\* image changes.
C4_AbortKeepsFiles ==
    [][ (~xcursorgen /\ pc \in {"compile", "aborted"}) =>
          /\ files' = files
          /\ pngs' = pngs
          /\ successful' = 0
          /\ failed' = 0
          /\ Len(attempted') <= 1
          /\ (pc = "compile" /\ idx <= Len(config_files)) => pc' = "aborted"
          /\ pc = "aborted" => attempted' = attempted ]_vars

C4_Witness ==
    /\ ~xcursorgen
    /\ pc = "aborted"
    /\ attempted = << "arrow" >>
    /\ Len(config_files) > 1
    /\ files["arrow"].kind = "file"
    /\ pngs["arrow"][1] # ""

Rank(n) == CHOOSE i \in DOMAIN SortedNames : SortedNames[i] = n

RegularConfigs == { n \in Names : files[n].kind = "file" }

\* C5: with the compiler present every regular *.cursor file is compiled
\* once, in sorted order, no link is; each is counted once, as a success
\* exactly when the exit status is 0 and the artifact exists; at the end the
\* counters add up to the number of regular config files.
C5_DriverAccounting ==
    [][ /\ (xcursorgen /\ pc = "driver") =>
             (attempted' = << >> /\ successful' = 0 /\ failed' = 0)
        /\ (xcursorgen /\ pc = "compile" /\ pc' = "compile") =>
             /\ attempted' = Append(attempted, last'.name)
             /\ files[last'.name].kind = "file"
             /\ attempted # << >> =>
                  Rank(attempted[Len(attempted)]) < Rank(last'.name)
             /\ IF last'.outcome = "exit0" /\ last'.artifact
                THEN successful' = successful + 1 /\ failed' = failed
                ELSE successful' = successful /\ failed' = failed + 1
             /\ successful' + failed' = Len(attempted')
        /\ (xcursorgen /\ pc = "compile" /\ pc' # "compile") =>
             /\ pc' = "hidpi"
             /\ Range(attempted) = RegularConfigs
             /\ successful + failed = Cardinality(RegularConfigs)
             /\ << successful', failed', attempted' >>
                    = << successful, failed, attempted >> ]_vars

C5_Witness ==
    /\ xcursorgen
    /\ pc = "done"
    /\ files["top_left_arrow"].kind = "link"
    /\ successful > 1
    /\ failed > 1
    /\ last.outcome = "timeout"
    /\ successful + failed = Cardinality(RegularConfigs)

\* C10: after every per-file outcome, and when the driver returns, the
\* working directory is the one the driver was entered with.
C10_CwdRestored ==
    pc \in {"compile", "aborted", "hidpi"} => cwd = entry_cwd

====
